---- MODULE Spec2Model ----
(***************************************************************************)
(* The Sentinel client of radix (sentinel.go): the state guarded by the    *)
(* proc lock (primAddr, clients, sentinelAddrs), the construction pass of  *)
(* NewSentinel, the control loop spin/innerSpin, the reconciliation        *)
(* ensureSentinelAddrs/ensureClients, the lookup-or-create helper client,  *)
(* and the facade Do, DoSecondary, Clients, SentinelAddrs and Close.       *)
(***************************************************************************)
EXTENDS Integers, Sequences, FiniteSets, TLC

\* ------------------------------------------------------------ universe
\* Redis node addresses and Sentinel addresses the environment can report.
Nodes == {"n1", "n2"}
Sents == {"s1", "s2"}
\* The sentinelAddrs argument of NewSentinel, kept as sc.initAddrs.
initAddrs == <<"s1", "s2">>
\* The callers of the facade.
Callers == {"c1", "c2"}

\* ClientFunc creates at most MaxPools pools; beyond that it fails.
MaxPools == 3
\* The control loop runs at most MaxPasses reconciliation passes after the
\* construction pass.
MaxPasses == 2

\* A nil Client, a nil Conn, the empty address.
Nil == 0
NoConn == ""
NoAddr == ""

\* Errors.
NilErr == <<>>
ErrClosed == <<"closed">>
ErrNoClients == <<"no Clients available">>
ErrIO == <<"io">>
ErrMalformed == <<"malformed">>
ErrClientFunc == <<"ClientFunc">>
ErrPoolClosed == <<"pool closed">>
DialErr(addr) == <<"dial", addr>>

\* Every order in which a Go map with key set S can be ranged over.
Orders(S) ==
  {o \in [1..Cardinality(S) -> S] : \A i, j \in 1..Cardinality(S) : i # j => o[i] # o[j]}

\* ------------------------------------------------------------ dialSentinel
\* The loop over sc.sentinelAddrs: stops at the first address that connects,
\* otherwise leaves the last error in err.
RECURSIVE DialKnown(_, _, _, _)
DialKnown(order, reach, c, err) ==
  IF order = <<>> THEN [conn |-> c, err |-> err, ok |-> FALSE]
  ELSE IF Head(order) \in reach
       THEN [conn |-> Head(order), err |-> NilErr, ok |-> TRUE]
       ELSE DialKnown(Tail(order), reach, NoConn, DialErr(Head(order)))

\* The loop over sc.initAddrs: its own error initErr is dropped, and when no
\* address connects the error of the first loop is returned.
RECURSIVE DialInit(_, _, _, _)
DialInit(addrs, reach, c, err) ==
  IF addrs = <<>> THEN [conn |-> c, err |-> err]
  ELSE IF Head(addrs) \in reach
       THEN [conn |-> Head(addrs), err |-> NilErr]
       ELSE DialInit(Tail(addrs), reach, NoConn, err)

\* WithRLock of a closed proc returns the closed error without running fn.
dialSentinel(order, init, reach, done) ==
  IF done THEN [conn |-> NoConn, err |-> ErrClosed]
  ELSE LET k == DialKnown(order, reach, NoConn, NilErr) IN
       IF k.ok THEN [conn |-> k.conn, err |-> NilErr]
       ELSE DialInit(init, reach, k.conn, k.err)

\* ------------------------------------------------------------ client
\* for addr, client = range sc.clients { if addr != sc.primAddr { break } }
\* leaves the loop variables at the first non-primary entry, or at the last
\* entry ranged over.
RECURSIVE RangeClients(_, _, _, _, _)
RangeClients(order, cl, prim, addr, client) ==
  IF order = <<>> THEN [addr |-> addr, client |-> client]
  ELSE IF Head(order) # prim
       THEN [addr |-> Head(order), client |-> cl[Head(order)]]
       ELSE RangeClients(Tail(order), cl, prim, Head(order), cl[Head(order)])

\* Reading a Go map at a key it does not hold gives nil.
MapGet(cl, addr) == IF addr \in DOMAIN cl THEN cl[addr] ELSE Nil

\* The read-lock section of client.
ClientLookup(addr, order, cl, prim) ==
  LET r == IF addr = NoAddr THEN RangeClients(order, cl, prim, addr, Nil)
           ELSE [addr |-> addr, client |-> Nil]
  IN IF r.client = Nil THEN MapGet(cl, prim) ELSE r.client

\* client without its check of the read-lock section's error.
ClientFoundErrDropped(err, client, addr) ==
  IF client # Nil THEN [client |-> client, err |-> NilErr, create |-> FALSE]
  ELSE IF addr = NoAddr THEN [client |-> Nil, err |-> ErrNoClients, create |-> FALSE]
  ELSE [client |-> Nil, err |-> NilErr, create |-> TRUE]

\* client going on to create a pool whatever its read-lock section found.
ClientFoundAlwaysCreates(err, client, addr) ==
  IF err # NilErr THEN [client |-> Nil, err |-> err, create |-> FALSE]
  ELSE [client |-> Nil, err |-> NilErr, create |-> TRUE]

\* What client does with the outcome of its read-lock section: the error, the
\* client found, "no Clients available" for DoSecondary, or a pool to create.
ClientFound(err, client, addr) ==
  IF err # NilErr THEN [client |-> Nil, err |-> err, create |-> FALSE]
  ELSE IF client # Nil THEN [client |-> client, err |-> NilErr, create |-> FALSE]
  ELSE IF addr = NoAddr THEN [client |-> Nil, err |-> ErrNoClients, create |-> FALSE]
  ELSE [client |-> Nil, err |-> NilErr, create |-> TRUE]

\* The write-lock section of client: install newClient unless addr has one.
ClientInstall(cl, addr, newClient) ==
  IF MapGet(cl, addr) = Nil
  THEN [clients |-> [a \in DOMAIN cl \cup {addr} |-> IF a = addr THEN newClient ELSE cl[a]],
        client |-> Nil]
  ELSE [clients |-> cl, client |-> cl[addr]]

\* ------------------------------------------------------------ pools
\* Client.Close on pool h.
ClosePool(ps, h) == [ps EXCEPT ![h].closes = @ + 1]

\* Client.Do on pool h: a closed pool refuses the action.
PoolDo(ps, h) == IF ps[h].closes > 0 THEN ErrPoolClosed ELSE NilErr

\* Close on every pool of a sequence of handles.
RECURSIVE CloseEach(_, _)
CloseEach(ps, hs) ==
  IF hs = <<>> THEN ps ELSE CloseEach(ClosePool(ps, Head(hs)), Tail(hs))

\* ------------------------------------------------------------ reconciliation
\* ensureSentinelAddrs without the queried sentinel: only the peers it reports.
PeerAddrsWithoutSelf(connAddr, peers) == peers

\* ensureSentinelAddrs: the queried sentinel itself plus the peers it reports.
PeerAddrs(connAddr, peers) == {connAddr} \cup peers

\* ensureClients with newClients built from the secondaries alone.
DesiredAddrsWithoutPrimary(newPrim, secs) == secs

\* ensureClients: the key set of newClients, the primary and every secondary.
DesiredAddrs(newPrim, secs) == {newPrim} \cup secs

EmptyMap == [a \in {} |-> Nil]

\* The commit loop over sc.clients: a client whose address is shared moves over
\* to newClients, ...
CommitCarry(newC, cl) ==
  [a \in DOMAIN newC |-> IF a \in DOMAIN cl THEN cl[a] ELSE newC[a]]

\* ... and every other one is appended to toClose.
ToClose(newC, cl) == [a \in DOMAIN cl \ DOMAIN newC |-> cl[a]]

\* The handles of a map, one per key, in some order of the keys.
Handles(order, m) == [i \in 1..Len(order) |-> m[order[i]]]

\* ensureClients: newTraceNodes, and prevTraceNodes as the commit builds it
\* from sc.clients and sc.primAddr: address -> IsPrimary.
NewTopo(newC, newPrim) == [a \in DOMAIN newC |-> a = newPrim]
PrevTopo(cl, prim) == [a \in DOMAIN cl |-> a = prim]

NodeInfo(a, isPrimary) == [addr |-> a, isPrimary |-> isPrimary]

\* traceTopoChanged, with a TopoChanged callback set: nothing is handed to it
\* when added, removed and changed are all empty.
TraceTopoChanged(prevT, newT) ==
  LET removed == {NodeInfo(a, prevT[a]) : a \in DOMAIN prevT \ DOMAIN newT}
      changed == {NodeInfo(a, newT[a]) :
                    a \in {b \in DOMAIN prevT \cap DOMAIN newT : newT[b] # prevT[b]}}
      added == {NodeInfo(a, newT[a]) : a \in DOMAIN newT \ DOMAIN prevT}
  IN [emitted |-> Cardinality(added) + Cardinality(removed) + Cardinality(changed) # 0,
      added |-> added, removed |-> removed, changed |-> changed]

\* make(chan PubSubMessage, 1)
PconnChCap == 1

\* sc.err storing the error whether or not the channel can take it.
ErrSendAlways(ch, e) == [ch EXCEPT !.buf = Append(@, e)]

\* sc.err: a send that does not block; the error is dropped when the channel
\* is nil or cannot take it.
ErrSend(ch, e) ==
  IF ch.nil \/ Len(ch.buf) >= ch.cap THEN ch ELSE [ch EXCEPT !.buf = Append(@, e)]

\* Clients: the map it returns, one ReplicaSet under sc.primAddr; the
\* secondaries in the order the range went over sc.clients.
NonPrimary(order, prim) == SelectSeq(order, LAMBDA a : a # prim)

\* Clients appending every client to rs.Secondaries, the primary's too.
ClientsSnapshotAllSecondaries(order, cl, prim) ==
  [a \in {prim} |->
     [primary |-> MapGet(cl, prim), secondaries |-> Handles(order, cl)]]

ClientsSnapshot(order, cl, prim) ==
  [a \in {prim} |->
     [primary |-> MapGet(cl, prim),
      secondaries |-> Handles(NonPrimary(order, prim), cl)]]

\* ------------------------------------------------------------ state
VARIABLES
  primAddr,       \* sc.primAddr
  clients,        \* sc.clients: address -> pool handle
  sentinelAddrs,  \* sc.sentinelAddrs
  pools,          \* every pool ClientFunc returned: [addr, closes]
  errChCloses,    \* how often close(sc.opts.errCh) ran
  ctxDone,        \* the proc's context is cancelled (the closed latch)
  wlock,          \* holder of the proc's write lock, "" when free
  lpc,            \* where NewSentinel / spin / innerSpin is
  started,        \* NewSentinel has returned the Sentinel and spin runs
  conn,           \* the sentinel connection NewSentinel / innerSpin holds
  spinErr,        \* the error innerSpin returned to spin
  passes,         \* reconciliation passes begun by the control loop
  newPrimAddr,    \* ensureClients: newPrimAddr
  newClients,     \* ensureClients: newClients
  todo,           \* ensureClients: addresses of newClients not yet ranged over
  kaddr,          \* client: addr, while the call creates a pool
  knew,           \* client: newClient
  toClose,        \* ensureClients: toClose, by the address each was stored at
  passClients,    \* sc.clients as it was when the current pass began
  passPrimAddr,   \* sc.primAddr as it was when the current pass began
  passPools,      \* Len(pools) when the current pass began
  removed,        \* toClose as the commit of the current pass built it
  repSecs,        \* the secondaries SENTINEL SLAVES reported to the current pass
  commitPools,    \* pools as it was when the current pass committed
  lastAnswered,   \* the sentinel whose SENTINEL SENTINELS reply was last committed
  lastPeers,      \* the peers that reply reported
  cpc,            \* where each caller is
  chandle,        \* the Client DoSecondary got from client
  cres,           \* what the facade call of each caller returned
  dinit,          \* a dialSentinel call on its own: sc.initAddrs
  dreach,         \* ... the sentinel addresses that accept a connection
  dout,           \* ... what the call returned
  eaddr,          \* two concurrent client calls: the addr both are given
  epc,            \* ... where each call is
  enew,           \* ... the newClient each call created
  einstalled,     \* ... whether the call stored its newClient in sc.clients
  eret,           \* ... what each call returned
  pconnCh,        \* sc.pconnCh: the switch-master messages it holds
  switchMaster,   \* innerSpin: switchMaster
  errCh,          \* sc.opts.errCh: [nil, cap, buf]
  prevTopo,       \* ensureClients: prevTraceNodes, address -> IsPrimary
  traced,         \* what the pass handed to sc.opts.st.TopoChanged
  cval            \* what Clients returned to each caller

\* The pass has handed nothing to TopoChanged.
NoTrace == [emitted |-> FALSE, added |-> {}, removed |-> {}, changed |-> {}]

\* Clients has returned nothing: the empty map it starts from.
NoVal == EmptyMap

\* SentinelErrCh was given a channel without a buffer that nobody receives
\* from: every send of sc.err finds it blocked.
UnbufferedCh == [nil |-> FALSE, cap |-> 0, buf |-> <<>>]

mainVars == <<primAddr, clients, sentinelAddrs, pools, errChCloses, ctxDone, wlock,
          lpc, started, conn, spinErr, passes, newPrimAddr, newClients, todo,
          kaddr, knew, toClose, passClients, passPrimAddr, passPools, removed, repSecs,
          commitPools, lastAnswered, lastPeers, cpc, chandle, cres,
          pconnCh, switchMaster, errCh, prevTopo, traced, cval>>

shared == <<primAddr, clients, sentinelAddrs>>
passVars == <<newPrimAddr, newClients, todo, kaddr, knew, toClose, passClients, passPrimAddr,
              passPools, removed, repSecs, commitPools, prevTopo, traced>>

\* The locals of ensureClients and client go away when ensureClients returns.
ResetPass ==
  /\ newPrimAddr' = NoAddr
  /\ newClients' = EmptyMap
  /\ todo' = {}
  /\ kaddr' = NoAddr
  /\ knew' = Nil
  /\ toClose' = EmptyMap
  /\ passClients' = EmptyMap
  /\ passPrimAddr' = NoAddr
  /\ passPools' = 0
  /\ removed' = EmptyMap
  /\ repSecs' = {}
  /\ commitPools' = <<>>
  /\ prevTopo' = EmptyMap
  /\ traced' = NoTrace
callerVars == <<cpc, chandle, cres, cval>>
loopIO == <<pconnCh, errCh>>
dialVars == <<dinit, dreach, dout>>
ensVars == <<eaddr, epc, enew, einstalled, eret>>
others == <<dialVars, ensVars, loopIO>>
vars == <<mainVars, dialVars, ensVars>>
answered == <<lastAnswered, lastPeers>>

\* No call has returned to the caller.
NoRes == [op |-> "", err |-> NilErr]

SetOf(seq) == {seq[i] : i \in DOMAIN seq}

\* The tasks of the two concurrent client calls.
Tasks == {"e1", "e2"}

\* No dialSentinel call has returned; no client call has returned.
NoOut == [conn |-> NoConn, err |-> <<"none">>]
NoRet == [client |-> Nil, err |-> <<"none">>]

DialIdle ==
  /\ dinit = initAddrs
  /\ dreach = {}
  /\ dout = NoOut

EnsureIdle ==
  /\ eaddr = NoAddr
  /\ epc = [t \in Tasks |-> "idle"]
  /\ enew = [t \in Tasks |-> Nil]
  /\ einstalled = [t \in Tasks |-> FALSE]
  /\ eret = [t \in Tasks |-> NoRet]

\* The Sentinel as the struct literal of NewSentinel leaves it, apart from the
\* fields the proc lock protects and the latch.
InitRest ==
  /\ errChCloses = 0
  /\ wlock = ""
  /\ lpc = "new_dial"
  /\ started = FALSE
  /\ conn = NoConn
  /\ spinErr = NilErr
  /\ passes = 0
  /\ newPrimAddr = NoAddr
  /\ newClients = EmptyMap
  /\ todo = {}
  /\ kaddr = NoAddr
  /\ knew = Nil
  /\ toClose = EmptyMap
  /\ passClients = EmptyMap
  /\ passPrimAddr = NoAddr
  /\ passPools = 0
  /\ removed = EmptyMap
  /\ repSecs = {}
  /\ commitPools = <<>>
  /\ lastAnswered = NoConn
  /\ lastPeers = {}
  /\ cpc = [t \in Callers |-> "idle"]
  /\ chandle = [t \in Callers |-> Nil]
  /\ cres = [t \in Callers |-> NoRes]
  /\ cval = [t \in Callers |-> NoVal]
  /\ pconnCh = 0
  /\ switchMaster = FALSE
  /\ prevTopo = EmptyMap
  /\ traced = NoTrace

Init ==
  /\ primAddr = NoAddr
  /\ clients = EmptyMap
  /\ sentinelAddrs = SetOf(initAddrs)
  /\ pools = <<>>
  /\ ctxDone = FALSE
  /\ errCh = UnbufferedCh
  /\ InitRest
  /\ DialIdle
  /\ EnsureIdle

\* ------------------------------------------------------------ proc
\* WithRLock and WithLock of a closed proc return the closed error and do not
\* run the section.
ProcErr(done) == IF done THEN ErrClosed ELSE NilErr

\* The proc's RWMutex: a reader enters when no writer holds it, a writer when
\* nobody holds it. Do keeps its read lock while the action runs.
Readers == {t \in Callers : cpc[t] = "do_exec"}
CanRLock == wlock = ""
CanLock == wlock = "" /\ Readers = {}

\* ------------------------------------------------------------ NewSentinel, spin
\* An error return: NewSentinel gives up, innerSpin returns the error to spin.
\* The deferred conn.Close() runs on either way out.
Fail(err) ==
  /\ lpc' = IF started THEN "spin_check" ELSE "failed"
  /\ spinErr' = err
  /\ conn' = NoConn
  /\ switchMaster' = FALSE
  /\ ResetPass

\* NewSentinel: conn, err := sc.dialSentinel(ctx).
NewDial ==
  /\ lpc = "new_dial"
  /\ CanRLock
  /\ \E reach \in SUBSET Sents, order \in Orders(sentinelAddrs) :
       LET r == dialSentinel(order, initAddrs, reach, ctxDone) IN
       IF r.err # NilErr
       THEN Fail(r.err)
       ELSE /\ conn' = r.conn
            /\ lpc' = "addrs"
            /\ UNCHANGED <<switchMaster, spinErr, passVars>>
  /\ UNCHANGED <<shared, pools, errChCloses, ctxDone, wlock, started, passes,
                 answered, callerVars, others>>

\* innerSpin: conn, err := sc.dialSentinel(ctx), then the first pass.
SpinDial ==
  /\ lpc = "spin_dial"
  /\ CanRLock
  /\ \E reach \in SUBSET Sents, order \in Orders(sentinelAddrs) :
       LET r == dialSentinel(order, initAddrs, reach, ctxDone) IN
       IF r.err # NilErr
       THEN Fail(r.err) /\ UNCHANGED passes
       ELSE /\ passes < MaxPasses
            /\ passes' = passes + 1
            /\ conn' = r.conn
            /\ lpc' = "addrs"
            /\ UNCHANGED <<switchMaster, spinErr, passVars>>
  /\ UNCHANGED <<shared, pools, errChCloses, ctxDone, wlock, started,
                 answered, callerVars, others>>

\* ensureSentinelAddrs: SENTINEL SENTINELS, then the write-lock section that
\* replaces sc.sentinelAddrs.
EnsureSentinelAddrs ==
  /\ lpc = "addrs"
  /\ \/ /\ Fail(ErrIO)
        /\ UNCHANGED <<sentinelAddrs, answered>>
     \/ /\ CanLock
        /\ IF ProcErr(ctxDone) # NilErr
           THEN Fail(ProcErr(ctxDone)) /\ UNCHANGED <<sentinelAddrs, answered>>
           ELSE /\ \E peers \in SUBSET (Sents \ {conn}) :
                     /\ sentinelAddrs' = PeerAddrs(conn, peers)
                     /\ lastPeers' = peers
                /\ lastAnswered' = conn
                /\ lpc' = "ec_query"
                /\ UNCHANGED <<switchMaster, spinErr, conn, passVars>>
  /\ UNCHANGED <<primAddr, clients, pools, errChCloses, ctxDone, wlock, started,
                 passes, callerVars, others>>

\* ensureClients: the SENTINEL MASTER / SENTINEL SLAVES pipeline and
\* sentinelMtoAddr on each reply, up to the newClients map with nil values.
EcQuery ==
  /\ lpc = "ec_query"
  /\ \/ \E e \in {ErrIO, ErrMalformed} : Fail(e)
     \/ /\ \E p \in Nodes : \E secs \in SUBSET (Nodes \ {p}) :
             /\ newPrimAddr' = p
             /\ repSecs' = secs
             /\ newClients' = [a \in DesiredAddrs(p, secs) |-> Nil]
             /\ todo' = DOMAIN newClients'
        /\ passClients' = clients
        /\ passPrimAddr' = primAddr
        /\ passPools' = Len(pools)
        /\ lpc' = "ec_clients"
        /\ UNCHANGED <<kaddr, knew, toClose, removed, commitPools, prevTopo,
                       traced, switchMaster, spinErr, conn>>
  /\ UNCHANGED <<shared, pools, errChCloses, ctxDone, wlock, started, passes,
                 answered, callerVars, others>>

\* ensureClients: client, err := sc.client(ctx, addr) for the next addr of
\* newClients, as far as the read-lock section of client and what follows it.
EcClient ==
  /\ lpc = "ec_clients"
  /\ CanRLock
  /\ \E addr \in todo : \E order \in Orders(DOMAIN clients) :
       LET c == IF ProcErr(ctxDone) # NilErr THEN Nil
                ELSE ClientLookup(addr, order, clients, primAddr)
           r == ClientFound(ProcErr(ctxDone), c, addr)
       IN IF r.err # NilErr
          THEN Fail(r.err)
          ELSE /\ IF r.create
                  THEN /\ kaddr' = addr
                       /\ lpc' = "ec_create"
                       /\ UNCHANGED <<newClients, todo>>
                  ELSE /\ newClients' = [newClients EXCEPT ![addr] = r.client]
                       /\ todo' = todo \ {addr}
                       /\ UNCHANGED <<lpc, kaddr>>
               /\ UNCHANGED <<switchMaster, spinErr, conn, newPrimAddr, knew, toClose, passClients, passPrimAddr,
                              passPools, removed, repSecs, commitPools, prevTopo, traced>>
  /\ UNCHANGED <<shared, pools, errChCloses, ctxDone, wlock, started, passes,
                 answered, callerVars, others>>

\* client: newClient, err := sc.opts.pf(ctx, "tcp", addr).
EcCreate ==
  /\ lpc = "ec_create"
  /\ \/ /\ Fail(ErrClientFunc)
        /\ UNCHANGED pools
     \/ /\ Len(pools) < MaxPools
        /\ pools' = Append(pools, [addr |-> kaddr, closes |-> 0])
        /\ knew' = Len(pools) + 1
        /\ lpc' = "ec_install"
        /\ UNCHANGED <<switchMaster, spinErr, conn, newPrimAddr, newClients, todo, kaddr,
                       toClose, passClients, passPrimAddr, passPools, removed, repSecs,
                       commitPools, prevTopo, traced>>
  /\ UNCHANGED <<shared, errChCloses, ctxDone, wlock, started, passes,
                 answered, callerVars, others>>

\* client: the write-lock section that installs newClient, the Close of
\* newClient when it was not installed, and the return into ensureClients.
EcInstall ==
  /\ lpc = "ec_install"
  /\ CanLock
  /\ IF ProcErr(ctxDone) # NilErr
     THEN /\ pools' = ClosePool(pools, knew)
          /\ Fail(ProcErr(ctxDone))
          /\ UNCHANGED clients
     ELSE LET r == ClientInstall(clients, kaddr, knew) IN
          /\ clients' = r.clients
          /\ pools' = IF r.client # Nil THEN ClosePool(pools, knew) ELSE pools
          /\ newClients' =
               [newClients EXCEPT ![kaddr] = IF r.client # Nil THEN r.client ELSE knew]
          /\ todo' = todo \ {kaddr}
          /\ kaddr' = NoAddr
          /\ knew' = Nil
          /\ lpc' = "ec_clients"
          /\ UNCHANGED <<switchMaster, spinErr, conn, newPrimAddr, toClose, passClients, passPrimAddr,
                         passPools, removed, repSecs, commitPools, prevTopo, traced>>
  /\ UNCHANGED <<primAddr, sentinelAddrs, errChCloses, ctxDone, wlock, started,
                 passes, answered, callerVars, others>>

\* ensureClients: the write-lock section, up to sc.primAddr = newPrimAddr.
EcCommit ==
  /\ lpc = "ec_clients"
  /\ todo = {}
  /\ CanLock
  /\ IF ProcErr(ctxDone) # NilErr
     THEN /\ Fail(ProcErr(ctxDone))
          /\ UNCHANGED <<primAddr, wlock>>
     ELSE /\ wlock' = "loop"
          /\ newClients' = CommitCarry(newClients, clients)
          /\ toClose' = ToClose(newClients, clients)
          /\ removed' = toClose'
          /\ commitPools' = pools
          /\ prevTopo' = PrevTopo(clients, primAddr)
          /\ primAddr' = newPrimAddr
          /\ lpc' = "ec_publish"
          /\ UNCHANGED <<switchMaster, spinErr, conn, newPrimAddr, todo, kaddr, knew,
                         passClients, passPrimAddr, passPools, repSecs, traced>>
  /\ UNCHANGED <<clients, sentinelAddrs, pools, errChCloses, ctxDone, started,
                 passes, answered, callerVars, others>>

\* ensureClients: sc.clients = newClients and the release of the write lock.
EcPublish ==
  /\ lpc = "ec_publish"
  /\ clients' = newClients
  /\ wlock' = ""
  /\ lpc' = "ec_close"
  /\ UNCHANGED <<primAddr, sentinelAddrs, pools, errChCloses, ctxDone, started,
                 conn, spinErr, switchMaster, passes, passVars, answered,
                 callerVars, others>>

\* ensureClients: client.Close() for the next client of toClose.
EcClose ==
  /\ lpc = "ec_close"
  /\ \E a \in DOMAIN toClose :
       /\ pools' = ClosePool(pools, toClose[a])
       /\ toClose' = [b \in DOMAIN toClose \ {a} |-> toClose[b]]
  /\ UNCHANGED <<shared, errChCloses, ctxDone, wlock, lpc, started, conn,
                 spinErr, switchMaster, passes, newPrimAddr, newClients, todo,
                 kaddr, knew, passClients, passPrimAddr, passPools, removed, repSecs,
                 commitPools, prevTopo, traced, answered, callerVars, others>>

\* ensureClients: sc.traceTopoChanged(prevTraceNodes, newTraceNodes), once
\* every client of toClose is closed.
EcTrace ==
  /\ lpc = "ec_close"
  /\ DOMAIN toClose = {}
  /\ traced' = TraceTopoChanged(prevTopo, NewTopo(newClients, newPrimAddr))
  /\ lpc' = "ec_return"
  /\ UNCHANGED <<shared, pools, errChCloses, ctxDone, wlock, started, conn,
                 spinErr, switchMaster, passes, newPrimAddr, newClients, todo,
                 kaddr, knew, toClose, passClients, passPrimAddr, passPools, removed, repSecs,
                 commitPools, prevTopo, answered, callerVars, others>>

\* ensureClients returns nil: NewSentinel goes on to the pub/sub connection,
\* innerSpin to the ping.
EcReturn ==
  /\ lpc = "ec_return"
  /\ lpc' = IF started THEN "ping" ELSE "new_pconn"
  /\ ResetPass
  /\ UNCHANGED <<shared, pools, errChCloses, ctxDone, wlock, started, conn,
                 spinErr, switchMaster, passes, answered, callerVars, others>>

\* NewSentinel: the persistent pub/sub connection, the subscription, and
\* sc.proc.Run(sc.spin); conn.Close() is deferred to this return.
NewReturn ==
  /\ lpc = "new_pconn"
  /\ started' = TRUE
  /\ conn' = NoConn
  /\ lpc' = "spin_dial"
  /\ UNCHANGED <<shared, pools, errChCloses, ctxDone, wlock, spinErr,
                 switchMaster, passes, passVars, answered, callerVars, others>>

\* innerSpin: sc.pconn.Ping(ctx); the pass is complete, and switchMaster is
\* false again.
Ping ==
  /\ lpc = "ping"
  /\ \/ Fail(ErrIO)
     \/ /\ lpc' = "select"
        /\ switchMaster' = FALSE
        /\ UNCHANGED <<spinErr, conn, passVars>>
  /\ UNCHANGED <<shared, pools, errChCloses, ctxDone, wlock, started, passes,
                 answered, callerVars, others>>

\* The cases of the select of innerSpin that can proceed.
SelectReady ==
  {r \in {"tick", "signal", "done"} :
     \/ r = "tick" /\ passes < MaxPasses
     \/ r = "signal" /\ pconnCh > 0 /\ passes < MaxPasses
     \/ r = "done" /\ ctxDone}

\* The select taking a message from sc.pconnCh on the tick as well, without
\* setting switchMaster.
SelectCaseTickReceives(r, ch, sm) ==
  [pconnCh |-> IF ch > 0 THEN ch - 1 ELSE ch,
   switchMaster |-> IF r = "signal" THEN TRUE ELSE sm]

\* What the tick case and the sc.pconnCh case of the select do to the channel
\* and to switchMaster before the loop goes round.
SelectCase(r, ch, sm) ==
  [pconnCh |-> IF r = "signal" THEN ch - 1 ELSE ch,
   switchMaster |-> IF r = "signal" THEN TRUE ELSE sm]

\* innerSpin: the select on the tick, on sc.pconnCh and on ctx.Done().
Select ==
  /\ lpc = "select"
  /\ \E r \in SelectReady :
       IF r = "done"
       THEN /\ lpc' = "spin_check"
            /\ spinErr' = NilErr
            /\ conn' = NoConn
            /\ switchMaster' = FALSE
            /\ UNCHANGED <<passes, pconnCh>>
       ELSE /\ passes' = passes + 1
            /\ lpc' = "addrs"
            /\ pconnCh' = SelectCase(r, pconnCh, switchMaster).pconnCh
            /\ switchMaster' = SelectCase(r, pconnCh, switchMaster).switchMaster
            /\ UNCHANGED <<spinErr, conn>>
  /\ UNCHANGED <<shared, pools, errChCloses, ctxDone, wlock, started,
                 passVars, answered, callerVars, dialVars, ensVars, errCh>>

\* spin: the check of ctx.Done() after innerSpin returned, then sc.err(err)
\* and the sleep before the next innerSpin. A send on a closed channel panics.
\* spin going on without looking at ctx.Done().
SpinCtxNotChecked == FALSE

\* spin: the select on ctx.Done() after innerSpin has returned.
SpinCtxDone == ctxDone

\* spin: innerSpin has returned; return when the context is cancelled, else
\* hand the error, if any, to sc.err and call innerSpin again.
SpinCheck ==
  /\ lpc = "spin_check"
  /\ IF SpinCtxDone
     THEN lpc' = "exited" /\ UNCHANGED errCh
     ELSE IF spinErr = NilErr
     THEN lpc' = "spin_dial" /\ UNCHANGED errCh
     ELSE IF errChCloses > 0
     THEN lpc' = "panic" /\ UNCHANGED errCh
     ELSE lpc' = "spin_dial" /\ errCh' = ErrSend(errCh, spinErr)
  /\ spinErr' = NilErr
  /\ UNCHANGED <<shared, pools, errChCloses, ctxDone, wlock, started, conn,
                 switchMaster, passes, passVars, answered, callerVars, dialVars,
                 ensVars, pconnCh>>

\* ------------------------------------------------------------ facade
Returned(t, op, err) ==
  /\ cpc' = [cpc EXCEPT ![t] = "ret"]
  /\ cres' = [cres EXCEPT ![t] = [op |-> op, err |-> err]]

\* Do: the read-lock section begins; a closed proc returns the closed error
\* without running it.
DoBegin(t) ==
  /\ started
  /\ cpc[t] = "idle"
  /\ CanRLock
  /\ IF ProcErr(ctxDone) # NilErr
     THEN Returned(t, "Do", ProcErr(ctxDone))
     ELSE cpc' = [cpc EXCEPT ![t] = "do_exec"] /\ UNCHANGED cres
  /\ UNCHANGED <<shared, pools, errChCloses, ctxDone, wlock, lpc, started, conn,
                 spinErr, switchMaster, passes, passVars, answered, others, chandle, cval>>

\* Do: sc.clients[sc.primAddr].Do(ctx, a) returns and the read lock is released.
DoEnd(t) ==
  /\ cpc[t] = "do_exec"
  /\ Returned(t, "Do", PoolDo(pools, MapGet(clients, primAddr)))
  /\ UNCHANGED <<shared, pools, errChCloses, ctxDone, wlock, lpc, started, conn,
                 spinErr, switchMaster, passes, passVars, answered, others, chandle, cval>>

\* DoSecondary: c, err := sc.client(ctx, ""), which ends after its read-lock
\* section: with the client found, or with an error. The rest of client, the
\* pool it creates and installs, is a path the empty addr does not take.
DoSecondaryClient(t) ==
  /\ started
  /\ cpc[t] = "idle"
  /\ CanRLock
  /\ \E order \in Orders(DOMAIN clients) :
       LET c == IF ProcErr(ctxDone) # NilErr THEN Nil
                ELSE ClientLookup(NoAddr, order, clients, primAddr)
           r == ClientFound(ProcErr(ctxDone), c, NoAddr)
       IN IF r.err # NilErr
          THEN /\ Returned(t, "DoSecondary", r.err)
               /\ UNCHANGED <<chandle, clients, pools>>
          ELSE IF r.create
          THEN LET newClient == Len(pools) + 1
                   i == ClientInstall(clients, NoAddr, newClient) IN
               /\ pools' = Append(pools, [addr |-> NoAddr, closes |-> 0])
               /\ clients' = i.clients
               /\ cpc' = [cpc EXCEPT ![t] = "dosec_exec"]
               /\ chandle' = [chandle EXCEPT ![t] = newClient]
               /\ UNCHANGED cres
          ELSE /\ cpc' = [cpc EXCEPT ![t] = "dosec_exec"]
               /\ chandle' = [chandle EXCEPT ![t] = r.client]
               /\ UNCHANGED <<cres, clients, pools>>
  /\ UNCHANGED <<primAddr, sentinelAddrs, errChCloses, ctxDone, wlock, lpc,
                 started, conn, spinErr, switchMaster, passes, passVars,
                 answered, others, cval>>

\* DoSecondary: return c.Do(ctx, a), holding no lock.
DoSecondaryDo(t) ==
  /\ cpc[t] = "dosec_exec"
  /\ Returned(t, "DoSecondary", PoolDo(pools, chandle[t]))
  /\ chandle' = [chandle EXCEPT ![t] = Nil]
  /\ UNCHANGED <<shared, pools, errChCloses, ctxDone, wlock, lpc, started, conn,
                 spinErr, switchMaster, passes, passVars, answered, others, cval>>

\* Clients and SentinelAddrs: one read-lock section each.
ClientsCall(t) ==
  /\ started
  /\ cpc[t] = "idle"
  /\ CanRLock
  /\ Returned(t, "Clients", ProcErr(ctxDone))
  /\ \E order \in Orders(DOMAIN clients) :
       cval' = [cval EXCEPT ![t] = IF ProcErr(ctxDone) # NilErr THEN NoVal
                                    ELSE ClientsSnapshot(order, clients, primAddr)]
  /\ UNCHANGED <<shared, pools, errChCloses, ctxDone, wlock, lpc, started, conn,
                 spinErr, switchMaster, passes, passVars, answered, others, chandle>>

SentinelAddrsCall(t) ==
  /\ started
  /\ cpc[t] = "idle"
  /\ CanRLock
  /\ Returned(t, "SentinelAddrs", ProcErr(ctxDone))
  /\ UNCHANGED <<shared, pools, errChCloses, ctxDone, wlock, lpc, started, conn,
                 spinErr, switchMaster, passes, passVars, answered, others, chandle, cval>>

\* The finalizer Close hands to proc.Close: Close on the client of every key
\* of sc.clients (close(sc.opts.errCh) follows it).
CloseFinalizer(order, ps, cl) == CloseEach(ps, Handles(order, cl))

\* Close: proc.Close. The first call cancels the context; a later one
\* returns the closed error.
CloseBegin(t) ==
  /\ started
  /\ cpc[t] = "idle"
  /\ IF ctxDone
     THEN Returned(t, "Close", ErrClosed) /\ UNCHANGED ctxDone
     ELSE /\ ctxDone' = TRUE
          /\ cpc' = [cpc EXCEPT ![t] = "close_wait"]
          /\ UNCHANGED cres
  /\ UNCHANGED <<shared, pools, errChCloses, wlock, lpc, started, conn,
                 spinErr, switchMaster, passes, passVars, answered, others, chandle, cval>>

\* proc.Close running the finalizer without waiting for the proc's tasks.
SpinNotAwaited == TRUE

\* proc.Close waits for every function started with proc.Run, here spin, to
\* return before it runs the finalizer.
SpinReturned == lpc = "exited"

\* Close: proc.Close has waited for spin to return and runs the finalizer
\* under the write lock.
CloseEnd(t) ==
  /\ cpc[t] = "close_wait"
  /\ SpinReturned
  /\ CanLock
  /\ \E order \in Orders(DOMAIN clients) :
       pools' = CloseFinalizer(order, pools, clients)
  /\ errChCloses' = IF errCh.nil THEN errChCloses ELSE errChCloses + 1
  /\ Returned(t, "Close", NilErr)
  /\ UNCHANGED <<shared, ctxDone, wlock, lpc, started, conn, spinErr, switchMaster, passes,
                 passVars, answered, others, chandle, cval>>

\* The caller has the result of its call and may call again.
Return(t) ==
  /\ cpc[t] = "ret"
  /\ cpc' = [cpc EXCEPT ![t] = "idle"]
  /\ cres' = [cres EXCEPT ![t] = NoRes]
  /\ cval' = [cval EXCEPT ![t] = NoVal]
  /\ UNCHANGED <<shared, pools, errChCloses, ctxDone, wlock, lpc, started, conn,
                 spinErr, switchMaster, passes, passVars, answered, others, chandle>>

Facade ==
  \E t \in Callers :
    \/ DoBegin(t) \/ DoEnd(t) \/ DoSecondaryClient(t) \/ DoSecondaryDo(t)
    \/ ClientsCall(t) \/ SentinelAddrsCall(t) \/ CloseBegin(t) \/ CloseEnd(t)
    \/ Return(t)

Loop ==
  \/ NewDial \/ SpinDial \/ EnsureSentinelAddrs \/ EcQuery \/ EcClient
  \/ EcCreate \/ EcInstall \/ EcCommit \/ EcPublish \/ EcClose \/ EcTrace
  \/ EcReturn
  \/ NewReturn \/ Ping \/ Select \/ SpinCheck

Next == Loop \/ Facade

Spec == Init /\ [][Next]_vars

\* ------------------------------------------------------------ control loop
\* The control loop with what feeds it and what it feeds: switch-master
\* messages arriving on sc.pconnCh, errors leaving on sc.opts.errCh, and one
\* caller that closes the Sentinel.

\* The buffer of the channel given to SentinelErrCh.
ErrChCap == 1

\* The caller that closes.
Closer == "c1"

\* The persistent pub/sub connection delivers a switch-master message to
\* sc.pconnCh; spin closes the connection when it returns. A message that finds
\* the channel full is not stored.
Publish ==
  /\ started
  /\ lpc \notin {"exited", "panic"}
  /\ pconnCh < PconnChCap
  /\ pconnCh' = pconnCh + 1
  /\ UNCHANGED <<shared, pools, errChCloses, ctxDone, wlock, lpc, started, conn,
                 spinErr, switchMaster, passes, passVars, answered, callerVars,
                 dialVars, ensVars, errCh>>

\* The owner of the channel given to SentinelErrCh receives an error from it.
Drain ==
  /\ errCh.buf # <<>>
  /\ errCh' = [errCh EXCEPT !.buf = Tail(@)]
  /\ UNCHANGED <<shared, pools, errChCloses, ctxDone, wlock, lpc, started, conn,
                 spinErr, switchMaster, passes, passVars, answered, callerVars,
                 dialVars, ensVars, pconnCh>>

\* NewSentinel without SentinelErrCh (a nil channel) or with a buffered one.
InitLoop ==
  /\ primAddr = NoAddr
  /\ clients = EmptyMap
  /\ sentinelAddrs = SetOf(initAddrs)
  /\ pools = <<>>
  /\ ctxDone = FALSE
  /\ errCh \in {[nil |-> TRUE, cap |-> 0, buf |-> <<>>],
                [nil |-> FALSE, cap |-> ErrChCap, buf |-> <<>>]}
  /\ InitRest
  /\ DialIdle
  /\ EnsureIdle

NextLoop ==
  \/ Loop
  \/ Publish
  \/ Drain
  \/ CloseBegin(Closer) \/ CloseEnd(Closer) \/ Return(Closer)

SpecLoop == InitLoop /\ [][NextLoop]_vars

\* Shutdown: the control loop, the switch-master messages and one caller that
\* closes the Sentinel. The goroutine of spin and the goroutine inside Close
\* are scheduled fairly: neither is left forever with a step it can take.
NextClose ==
  Loop \/ Publish \/ CloseBegin(Closer) \/ CloseEnd(Closer) \/ Return(Closer)

SpecCloseFair ==
  Init /\ [][NextClose]_vars /\ WF_vars(Loop) /\ WF_vars(CloseEnd(Closer))

\* ------------------------------------------------------------ dialSentinel alone
\* The sentinel addresses of the dialSentinel calls checked on their own, and
\* the longest sc.initAddrs they are given.
DialSents == {"s1", "s2", "s3"}
MaxInit == 2

\* The sequences sc.initAddrs may be: NewSentinel reads sentinelAddrs[0].
InitAddrLists ==
  {l \in UNION {[1..n -> DialSents] : n \in 1..MaxInit} :
     \A i, j \in DOMAIN l : i # j => l[i] # l[j]}

\* Any sc.sentinelAddrs, any sc.initAddrs, any set of sentinels that accept a
\* connection, on an open or a closed proc.
InitDial ==
  /\ primAddr = NoAddr
  /\ clients = EmptyMap
  /\ sentinelAddrs \in SUBSET DialSents
  /\ pools = <<>>
  /\ ctxDone \in BOOLEAN
  /\ errCh = UnbufferedCh
  /\ InitRest
  /\ dinit \in InitAddrLists
  /\ dreach \in SUBSET DialSents
  /\ dout = NoOut
  /\ EnsureIdle

\* One call of dialSentinel.
DialCall ==
  /\ dout = NoOut
  /\ CanRLock
  /\ \E order \in Orders(sentinelAddrs) :
       dout' = dialSentinel(order, dinit, dreach, ctxDone)
  /\ UNCHANGED <<mainVars, dinit, dreach, ensVars>>

NextDial == DialCall

SpecDial == InitDial /\ [][NextDial]_vars

\* ------------------------------------------------------------ client twice
\* sc.clients with a pool of its own under every key.
ClientsOf(keys) ==
  LET o == CHOOSE o \in Orders(keys) : TRUE
  IN [a \in keys |-> CHOOSE i \in 1..Cardinality(keys) : o[i] = a]

PoolsOf(cl) ==
  [i \in 1..Cardinality(DOMAIN cl) |->
     [addr |-> CHOOSE a \in DOMAIN cl : cl[a] = i, closes |-> 0]]

\* Two calls of client with the same non-empty addr begin together: during
\* the construction pass (primAddr still empty) or later (primAddr a key of
\* clients).
InitEnsure ==
  /\ \E keys \in SUBSET Nodes :
       /\ clients = ClientsOf(keys)
       /\ pools = PoolsOf(clients)
       /\ primAddr \in {NoAddr} \cup keys
  /\ sentinelAddrs = SetOf(initAddrs)
  /\ ctxDone = FALSE
  /\ errCh = UnbufferedCh
  /\ InitRest
  /\ DialIdle
  /\ eaddr \in Nodes
  /\ epc = [t \in Tasks |-> "lookup"]
  /\ enew = [t \in Tasks |-> Nil]
  /\ einstalled = [t \in Tasks |-> FALSE]
  /\ eret = [t \in Tasks |-> NoRet]

ensFrame == <<sentinelAddrs, errChCloses, ctxDone, wlock, lpc, started, conn,
              spinErr, switchMaster, passes, passVars, answered, callerVars, dialVars,
              loopIO, eaddr>>

\* client: the read-lock section and what follows it.
EnsLookup(t) ==
  /\ epc[t] = "lookup"
  /\ CanRLock
  /\ \E order \in Orders(DOMAIN clients) :
       LET c == IF ProcErr(ctxDone) # NilErr THEN Nil
                ELSE ClientLookup(eaddr, order, clients, primAddr)
           r == ClientFound(ProcErr(ctxDone), c, eaddr)
       IN IF r.create
          THEN epc' = [epc EXCEPT ![t] = "create"] /\ UNCHANGED eret
          ELSE /\ epc' = [epc EXCEPT ![t] = "done"]
               /\ eret' = [eret EXCEPT ![t] = [client |-> r.client, err |-> r.err]]
  /\ UNCHANGED <<primAddr, clients, pools, enew, einstalled, ensFrame>>

\* client: newClient, err := sc.opts.pf(ctx, "tcp", addr).
EnsCreate(t) ==
  /\ epc[t] = "create"
  /\ \/ /\ epc' = [epc EXCEPT ![t] = "done"]
        /\ eret' = [eret EXCEPT ![t] = [client |-> Nil, err |-> ErrClientFunc]]
        /\ UNCHANGED <<pools, enew>>
     \/ /\ Len(pools) < MaxPools
        /\ pools' = Append(pools, [addr |-> eaddr, closes |-> 0])
        /\ enew' = [enew EXCEPT ![t] = Len(pools) + 1]
        /\ epc' = [epc EXCEPT ![t] = "install"]
        /\ UNCHANGED eret
  /\ UNCHANGED <<primAddr, clients, einstalled, ensFrame>>

\* client: the write-lock section that installs newClient, the Close of
\* newClient when it was not installed, and the return.
EnsInstall(t) ==
  /\ epc[t] = "install"
  /\ CanLock
  /\ LET r == ClientInstall(clients, eaddr, enew[t]) IN
       /\ clients' = r.clients
       /\ einstalled' = [einstalled EXCEPT ![t] = (r.client = Nil)]
       /\ pools' = IF r.client # Nil THEN ClosePool(pools, enew[t]) ELSE pools
       /\ eret' = [eret EXCEPT ![t] =
                     [client |-> IF r.client # Nil THEN r.client ELSE enew[t],
                      err |-> NilErr]]
  /\ epc' = [epc EXCEPT ![t] = "done"]
  /\ UNCHANGED <<primAddr, enew, ensFrame>>

NextEnsure == \E t \in Tasks : EnsLookup(t) \/ EnsCreate(t) \/ EnsInstall(t)

SpecEnsure == InitEnsure /\ [][NextEnsure]_vars

\* ------------------------------------------------------------ properties
\* C1: whenever a reader can hold the read lock of a constructed, open
\* Sentinel, primAddr is a key of clients and the client stored there is not
\* nil.
C1_PrimaryIsClient ==
  (started /\ ~ctxDone /\ CanRLock) =>
    (primAddr \in DOMAIN clients /\ clients[primAddr] # Nil)

\* C1 witness: a pass has published a primary that was no key of clients when
\* the pass began, and readers can look again.
C1_Witness ==
  /\ started /\ ~ctxDone /\ CanRLock
  /\ lpc = "ec_close"
  /\ primAddr \notin DOMAIN passClients

\* C2: before Close, no pool stored as a value of clients has been closed.
C2_NoClosedPoolInClients ==
  (~ctxDone /\ CanRLock) =>
    \A a \in DOMAIN clients : pools[clients[a]].closes = 0

\* C3: once a pass has committed, primAddr is the reported primary, the keys
\* of clients are the reported primary and secondaries, an address that was a
\* key before the pass keeps its pool, an address that was not has a pool
\* ClientFunc created for it during the pass, and no two addresses share one.
C3_PassResult ==
  lpc = "ec_close" =>
    /\ primAddr = newPrimAddr
    /\ DOMAIN clients = {newPrimAddr} \cup repSecs
    /\ \A a \in DOMAIN clients \cap DOMAIN passClients : clients[a] = passClients[a]
    /\ \A a \in DOMAIN clients \ DOMAIN passClients :
         /\ clients[a] > passPools
         /\ pools[clients[a]].addr = a
    /\ \A a, b \in DOMAIN clients : a # b => clients[a] # clients[b]

\* The number of Close calls the current pass has made on pool h since its
\* commit.
ClosedByPass(h) == pools[h].closes - commitPools[h].closes

\* C4: no pool is closed while the commit holds the write lock; when the pass
\* has closed everything in toClose, it has closed exactly the pools stored
\* under the removed keys, once each, and none stored under a key that stays.
C4_PassCloses ==
  /\ lpc = "ec_publish" => pools = commitPools
  /\ (lpc = "ec_close" /\ DOMAIN toClose = {}) =>
       /\ \A h \in DOMAIN pools :
            ClosedByPass(h) = IF \E a \in DOMAIN removed : removed[a] = h THEN 1 ELSE 0
       /\ \A a \in DOMAIN clients \cap DOMAIN passClients : ClosedByPass(clients[a]) = 0

\* C5: no pool is ever closed more than once, and once the finalizer of Close
\* has run every pool stored in clients is closed.
C5_ClosedOnce ==
  /\ \A h \in DOMAIN pools : pools[h].closes <= 1
  /\ errChCloses > 0 => \A a \in DOMAIN clients : pools[clients[a]].closes >= 1

\* C6: the latch never opens again; a facade call that begins once it is set
\* returns the closed error at once, closes no pool and leaves the error
\* channel alone; the error channel is closed at most once.
C6_ClosedLatch ==
  [][ctxDone =>
       /\ ctxDone'
       /\ errChCloses' <= 1
       /\ \A t \in Callers :
            (cpc[t] = "idle" /\ cpc'[t] # "idle") =>
              /\ cpc'[t] = "ret"
              /\ cres'[t].err = ErrClosed
              /\ pools' = pools
              /\ errChCloses' = errChCloses]_vars

\* C6 witness: Close has run its finalizer and a later Close has returned the
\* closed error.
C6_Witness ==
  /\ errChCloses = 1
  /\ \E t \in Callers : cpc[t] = "ret" /\ cres[t] = [op |-> "Close", err |-> ErrClosed]

\* C7: a DoSecondary call returns nil after running its action on a pool that
\* was open, or returns the closed error; it never runs the action on a pool
\* that is already closed.
C7_DoSecondaryOnOpenPool ==
  \A t \in Callers :
    (cpc[t] = "ret" /\ cres[t].op = "DoSecondary") => cres[t].err \in {NilErr, ErrClosed}

\* C8: of two concurrent client calls for one addr at most one stores the
\* pool it created in clients; once both have returned without error, both have
\* returned the client stored at clients[addr]; and a call that created a pool
\* and did not store it has closed it.
C8_ConcurrentClient ==
  /\ ~(einstalled["e1"] /\ einstalled["e2"])
  /\ (\A t \in Tasks : epc[t] = "done" /\ eret[t].err = NilErr) =>
       \A t \in Tasks : eret[t].client # Nil /\ eret[t].client = MapGet(clients, eaddr)
  /\ \A t \in Tasks :
       (epc[t] = "done" /\ enew[t] # Nil /\ ~einstalled[t]) => pools[enew[t]].closes = 1

\* The first address of addrs that accepts a connection.
FirstReachable(addrs, reach) ==
  addrs[CHOOSE i \in DOMAIN addrs :
          addrs[i] \in reach /\ \A j \in 1..(i - 1) : addrs[j] \notin reach]

C10_SentinelAddrs ==
  /\ sentinelAddrs # {}
  /\ lastAnswered # NoConn => sentinelAddrs = {lastAnswered} \cup lastPeers

\* C10 witness: the sentinel of the second bootstrap address answered alone,
\* and the first bootstrap address is no longer known.
C10_Witness ==
  /\ started
  /\ lastAnswered = "s2"
  /\ sentinelAddrs = {"s2"}

\* sc.clients as it was when the ensureClients call in progress began.
ClientsBeforePass == IF lpc = "ec_query" THEN clients ELSE passClients

\* C11: a step in which ensureClients returns an error leaves primAddr as it
\* is and clients as it was when the pass began, and no step of a pass before
\* its commit closes a pool that existed when the pass began.
C11_FailedPassLeavesState ==
  [][/\ (lpc \in {"ec_query", "ec_clients", "ec_create", "ec_install"}
         /\ lpc' \in {"spin_check", "failed"}) =>
           (primAddr' = primAddr /\ clients' = ClientsBeforePass)
     /\ lpc \in {"ec_clients", "ec_create", "ec_install"} =>
           \A h \in 1..passPools : pools'[h] = pools[h]]_vars

\* C12: a Clients call that returns without error returns a map with the one
\* key primAddr, whose ReplicaSet has the client stored at clients[primAddr] as
\* primary and the clients stored under the other keys, one for each key, as
\* secondaries, clients and primAddr being those of the state the call read.
C12_ClientsSnapshot ==
  [][\A t \in Callers :
       (cpc[t] = "idle" /\ cpc'[t] = "ret"
        /\ cres'[t] = [op |-> "Clients", err |-> NilErr]) =>
         /\ DOMAIN cval'[t] = {primAddr}
         /\ cval'[t][primAddr].primary = clients[primAddr]
         /\ \E order \in Orders(DOMAIN clients \ {primAddr}) :
              cval'[t][primAddr].secondaries = Handles(order, clients)]_vars

\* C12 witness: Clients has returned a primary and one secondary.
C12_Witness ==
  \E t \in Callers :
    /\ cpc[t] = "ret"
    /\ cres[t] = [op |-> "Clients", err |-> NilErr]
    /\ \E a \in DOMAIN cval[t] :
         cval[t][a].primary # Nil /\ Len(cval[t][a].secondaries) = 1

\* C13: when a pass that a switch-master message started has committed and
\* closed what it removed, primAddr is the primary the sentinel reported and a
\* key of clients, and every address that was a key before the pass and still
\* is one has the client it had, which the pass has not closed.
C13_FailoverApplied ==
  (switchMaster /\ lpc = "ec_return") =>
    /\ primAddr = newPrimAddr
    /\ primAddr \in DOMAIN clients
    /\ \A a \in DOMAIN passClients \cap DOMAIN clients :
         clients[a] = passClients[a] /\ ClosedByPass(clients[a]) = 0

\* C14: a client call for a non-empty addr that returns without error returns
\* the client stored at clients[addr], and that client is a pool ClientFunc
\* created for addr, never one created for another address.
C14_ClientForAddr ==
  \A t \in Tasks :
    (epc[t] = "done" /\ eret[t].err = NilErr) =>
      /\ eaddr \in DOMAIN clients
      /\ eret[t].client = clients[eaddr]
      /\ pools[eret[t].client].addr = eaddr

\* Where the loop is during a pass: ensureSentinelAddrs, ensureClients, Ping.
PassStates ==
  {"addrs", "ec_query", "ec_clients", "ec_create", "ec_install", "ec_publish",
   "ec_close", "ec_return", "ping"}

\* C15 as stated: a message leaves sc.pconnCh only in the select, which then
\* begins a pass with switchMaster set; the channel never holds more than one
\* message; and the pass a received message began always runs to the end of
\* its Ping.
C15_SignalThenFullPass ==
  [][/\ pconnCh' < pconnCh => (lpc = "select" /\ lpc' = "addrs" /\ switchMaster')
     /\ pconnCh' <= 1
     /\ (switchMaster /\ ~switchMaster') => (lpc = "ping" /\ lpc' = "select")]_vars

\* C15 amended: as above, but the pass a received message began ends with
\* its Ping or with the error of one of its steps, which ends the inner
\* iteration; while switchMaster is set the loop is in that pass; and no step
\* that ends an inner iteration takes a message from the channel.
C15_SignalThenPass ==
  [][/\ pconnCh' < pconnCh => (lpc = "select" /\ lpc' = "addrs" /\ switchMaster')
     /\ pconnCh' <= 1
     /\ switchMaster' => lpc' \in PassStates
     /\ (switchMaster /\ ~switchMaster') =>
          \/ lpc = "ping" /\ lpc' = "select"
          \/ lpc \in PassStates /\ lpc' = "spin_check" /\ spinErr' # NilErr
     /\ lpc' = "spin_check" => pconnCh' >= pconnCh]_vars

\* C15 witness: the pass a message began has reached its Ping and another
\* message is waiting in the channel.
C15_Witness == switchMaster /\ lpc = "ping" /\ pconnCh = 1

\* C16: when spin has an error from innerSpin and the context is not
\* cancelled, the error is appended to errCh if errCh is not nil and has room,
\* and dropped otherwise, and either way the loop goes on to a new innerSpin;
\* when the context is cancelled, errCh is left alone and the loop exits.
C16_ErrorsNonFatal ==
  [][(lpc = "spin_check" /\ lpc' # "spin_check") =>
       IF ctxDone
       THEN lpc' = "exited" /\ errCh' = errCh
       ELSE /\ lpc' = "spin_dial"
            /\ errCh'.buf =
                 IF spinErr # NilErr /\ ~errCh.nil /\ Len(errCh.buf) < errCh.cap
                 THEN errCh.buf \o <<spinErr>>
                 ELSE errCh.buf]_vars

\* C16 witness: one error is in errCh, which is full, and spin has the next
\* error to offer.
C16_Witness ==
  /\ lpc = "spin_check" /\ spinErr # NilErr /\ ~ctxDone
  /\ ~errCh.nil /\ Len(errCh.buf) = errCh.cap /\ errCh.cap > 0

\* C17: the finalizer of Close (closing the pool handles and errCh) runs only
\* when spin has returned, and once spin has returned the control loop takes
\* no step: it commits nothing, creates and installs no pool, and never sends
\* on the closed errCh.
C17_CloseAwaitsSpin ==
  [][/\ (\E t \in Callers : cpc[t] = "close_wait" /\ cpc'[t] = "ret")
          => lpc = "exited"
     /\ (errChCloses > 0 \/ lpc = "exited")
          => /\ lpc' = lpc /\ lpc # "panic"
             /\ UNCHANGED <<shared, passVars, conn, spinErr, passes>>
             /\ Len(pools') = Len(pools)]_vars

\* C17 witness: Close ended a running Sentinel: errCh is closed and a pool of
\* sc.clients has been closed by the finalizer.
C17_Witness ==
  /\ errChCloses > 0 /\ lpc = "exited"
  /\ \E a \in DOMAIN clients : pools[clients[a]].closes > 0

\* The trace a pass owes: the committed topology against the one published
\* when the pass began.
OwedAdded ==
  {NodeInfo(a, a = primAddr) : a \in DOMAIN clients \ DOMAIN passClients}
OwedRemoved ==
  {NodeInfo(a, a = passPrimAddr) : a \in DOMAIN passClients \ DOMAIN clients}
OwedChanged ==
  {NodeInfo(a, a = primAddr) :
     a \in {b \in DOMAIN passClients \cap DOMAIN clients :
              (b = primAddr) # (b = passPrimAddr)}}

\* C18: when ensureClients has committed and traced, the trace is the one
\* computed against the topology published before the pass began: added are
\* the new addresses that were no key of sc.clients, removed the former keys
\* that are no longer desired, changed the addresses in both whose IsPrimary
\* differs, and nothing is emitted when all three are empty.
C18_TraceAgainstPrePass ==
  lpc = "ec_return" =>
    /\ traced.added = OwedAdded
    /\ traced.removed = OwedRemoved
    /\ traced.changed = OwedChanged
    /\ traced.emitted <=> (OwedAdded \cup OwedRemoved \cup OwedChanged # {})

\* C19: once Close has cancelled the context, the control loop eventually
\* exits from wherever it is and the Close that waits for it eventually
\* returns; a loop that sees the cancellation after innerSpin exits instead
\* of calling innerSpin again, and an exited loop stays exited.
C19_CloseTerminates ==
  /\ ctxDone ~> (lpc = "exited")
  /\ (cpc[Closer] = "close_wait") ~> (cpc[Closer] = "ret")
  /\ [][/\ (lpc = "spin_check" /\ ctxDone) => lpc' \in {"spin_check", "exited"}
        /\ lpc = "exited" => lpc' = "exited"]_vars

\* C19 witness: the loop, which had begun a pass after construction, has
\* exited and the Close that cancelled it has returned.
C19_Witness ==
  /\ lpc = "exited" /\ cpc[Closer] = "ret" /\ cres[Closer].err = NilErr
  /\ spinErr = NilErr /\ passes > 0

\* The steps of the control loop that write primAddr, clients or
\* sentinelAddrs: ensureSentinelAddrs, the install of client, and the commit
\* of ensureClients.
LoopWrites == {"addrs", "ec_install", "ec_clients", "ec_publish"}

\* C20: a step of Do, DoSecondary, Clients or SentinelAddrs (or of Close)
\* leaves primAddr, clients and sentinelAddrs as they were and creates no
\* pool; whenever one of the three changes, the step is one of the control
\* loop's writes; and client("") on an empty clients map finds nothing and
\* returns "no Clients available" without creating a pool.
C20_FacadeFrame ==
  [][/\ (\E t \in Callers : cpc'[t] # cpc[t])
          => UNCHANGED shared /\ Len(pools') = Len(pools)
     /\ shared' # shared => lpc \in LoopWrites /\ lpc' # lpc
     /\ ClientLookup(NoAddr, <<>>, EmptyMap, primAddr) = Nil
     /\ ClientFound(NilErr, Nil, NoAddr) =
          [client |-> Nil, err |-> ErrNoClients, create |-> FALSE]]_vars

\* C20 witness: DoSecondary has returned to one caller and Clients to the
\* other while clients holds two addresses.
C20_Witness ==
  /\ Cardinality(DOMAIN clients) = 2
  /\ cpc["c1"] = "ret" /\ cres["c1"].op = "DoSecondary" /\ cres["c1"].err = NilErr
  /\ cpc["c2"] = "ret" /\ cres["c2"].op = "Clients" /\ cres["c2"].err = NilErr

\* The pool handles stored in clients.
Stored == {clients[a] : a \in DOMAIN clients}

\* The control loop is between passes, or NewSentinel or spin has returned.
Quiescent == lpc \in {"failed", "spin_dial", "spin_check", "select", "exited"}

\* C21: at every quiescent point each pool ClientFunc has returned is stored
\* in clients of a Sentinel that NewSentinel returned, or has been closed;
\* when NewSentinel has returned an error every pool created has been closed.
C21_NoPoolLeaked ==
  Quiescent =>
    \A h \in 1..Len(pools) :
      pools[h].closes > 0 \/ (started /\ h \in Stored)
====
